---- MODULE Spec2Model ----
(***************************************************************************)
(* ProGest2 (src/app.py): a Flask application over a relational store with *)
(* the tables dono, propriedade, animal, lote and usuario.  The model has  *)
(* one action per request handler.  A state is the content of the tables,  *)
(* the session cookie of the one client, and the response to the last      *)
(* request.                                                                *)
(*                                                                         *)
(* Conventions.                                                            *)
(*  - A table is the sequence of its rows in insertion order; the primary  *)
(*    key of a new row is the next free integer.                           *)
(*  - Form fields are strings; a field that is absent from the form and a  *)
(*    field that is present but empty both read as "" after `or ''`.       *)
(*  - area_total_ha is NUMERIC(10,2); it is kept in hundredths of hectare. *)
(*  - GROUP BY compares strings exactly (no collation folding).            *)
(*  - The POST branch of propriedades, animais and lotes is modelled; the  *)
(*    GET branch only lists rows and changes nothing.                      *)
(***************************************************************************)
EXTENDS Integers, Sequences, FiniteSets, TLC

VARIABLES dono, propriedade, animal, lote, usuario, session, resp

tables == <<dono, propriedade, animal, lote, usuario>>
vars == <<dono, propriedade, animal, lote, usuario, session, resp>>

(***************************************************************************)
(* Bounds of the model: the number of rows a table may hold ...            *)
(***************************************************************************)
MaxDono == 2
MaxPropriedade == 2
MaxAnimal == 2
MaxLote == 2
\* ... and the width of the store: the rows of animal plus the rows of the
\* larger of dono and propriedade.  The lists by owner and by state read
\* dono, propriedade and lote, the list by breed reads animal and lote, so a
\* store is explored with several owners and properties or with several
\* animal kinds.
MaxWidth == 3

(***************************************************************************)
(* Values.                                                                 *)
(***************************************************************************)
\* A nullable value is <<>> (SQL NULL, Python None) or <<v>>.
NULL == <<>>

Some(v) == <<v>>
\* The label the BI lists give to a missing value (app.py:211, app.py:240).
NaoInformado == "Não informado"
\* An empty dict: the session without 'user', the `data` of bi_dashboard.
EmptyDict == [k \in {} |-> ""]

\* Mutant of strip: the form value is taken as it was sent.
stripNone(s) == s

\* str.strip() on the strings of the model's alphabet.
strip(s) ==
    CASE s = " " -> ""
      [] s = " SP " -> "SP"
      [] s = " Bia " -> "Bia"
      [] s = " 111 " -> "111"
      [] OTHER -> s

\* The strings Python's int() accepts, with their values; int() raises
\* ValueError on any other string.
IntLiterals ==
    ("1" :> 1) @@ ("2" :> 2) @@ ("3" :> 3) @@ ("9" :> 9) @@ (" 2 " :> 2)
    @@ ("5" :> 5) @@ ("20" :> 20) @@ ("-3" :> -3)

IsInt(s) == s \in DOMAIN IntLiterals

int(s) == IntLiterals[s]

\* The decimal strings the area column accepts, in hundredths.
DecimalLiterals == ("10.00" :> 1000) @@ ("5.50" :> 550)

Numeric(s) == DecimalLiterals[s]

\* datetime.strptime(s, '%Y-%m-%d').date(): the dates of the alphabet, as
\* days; strptime raises ValueError on any other string.
DateLiterals == ("2024-01-15" :> 19737)

IsDate(s) == s \in DOMAIN DateLiterals

strptime(s) == DateLiterals[s]

(***************************************************************************)
(* Responses.                                                              *)
(***************************************************************************)
Flash(category, message) == [category |-> category, message |-> message]

\* redirect(url_for(endpoint)) after the flashes of the request.
Redirect(handler, endpoint, flashes) ==
    [handler |-> handler, status |-> 302, location |-> endpoint,
     flashes |-> flashes, json |-> EmptyDict, context |-> EmptyDict]

\* jsonify(json) or render_template(..., **context) after the flashes of the
\* request.
Reply(handler, status, flashes, json, context) ==
    [handler |-> handler, status |-> status, location |-> "",
     flashes |-> flashes, json |-> json, context |-> context]

(***************************************************************************)
(* Session gate.                                                           *)
(***************************************************************************)
LoggedIn == "user" \in DOMAIN session

\* Mutant of login_required: the wrapped handler runs for every caller.
login_not_required(handler, f) == f

\* @login_required: the wrapped handler runs only with 'user' in session.
login_required(handler, f) ==
    IF ~LoggedIn
      THEN /\ resp' = Redirect(handler, "login",
                        <<Flash("warning", "Faça login para acessar esta página.")>>)
           /\ UNCHANGED <<tables, session>>
      ELSE f

(***************************************************************************)
(* Store constraints.                                                      *)
(***************************************************************************)
Ids(table) == {table[i].id : i \in 1..Len(table)}

\* Mutant of DonoUnique: the column without its UNIQUE constraint.
DonoNotUnique(cpf_cnpj) == TRUE

\* dono.cpf_cnpj UNIQUE
DonoUnique(cpf_cnpj) == \A i \in 1..Len(dono) : dono[i].cpf_cnpj # cpf_cnpj

\* propriedade.dono_id REFERENCES dono.id
PropriedadeFK(dono_id) == dono_id \in Ids(dono)

\* Mutant of LoteFK: the columns without their foreign keys.
LoteNoFK(propriedade_id, animal_id) == TRUE

\* lote.propriedade_id REFERENCES propriedade.id, lote.animal_id REFERENCES animal.id
LoteFK(propriedade_id, animal_id) ==
    /\ propriedade_id \in Ids(propriedade)
    /\ animal_id \in Ids(animal)

\* usuario.username UNIQUE
UsuarioByName(username) ==
    {i \in 1..Len(usuario) : usuario[i].username = username}

\* Whether a store with nd, np, na and nl rows is within the bounds.
Fits(nd, np, na, nl) ==
    /\ nd <= MaxDono
    /\ np <= MaxPropriedade
    /\ na <= MaxAnimal
    /\ nl <= MaxLote
    /\ na + (IF nd >= np THEN nd ELSE np) <= MaxWidth

(***************************************************************************)
(* Form inputs.                                                            *)
(***************************************************************************)
DonoForms ==
    { [nome |-> "Ana", cpf_cnpj |-> "111"],
      [nome |-> "Bia", cpf_cnpj |-> "222"],
      [nome |-> " Bia ", cpf_cnpj |-> " 111 "],
      [nome |-> " ", cpf_cnpj |-> "111"],
      [nome |-> "Bia", cpf_cnpj |-> ""] }

PropriedadeForms ==
    { [nome |-> "Sitio", municipio |-> "Campinas", estado |-> f[1],
       area_total |-> f[2], dono_id |-> d] :
        f \in {<<"SP", "10.00">>, <<"MG", "5.50">>}, d \in {"1", "2", "9"} }
    \cup
    { [nome |-> "", municipio |-> "Campinas", estado |-> "SP",
       area_total |-> "10.00", dono_id |-> "1"],
      [nome |-> "Sitio", municipio |-> "Campinas", estado |-> " ",
       area_total |-> "10.00", dono_id |-> "1"],
      [nome |-> "Sitio", municipio |-> "Campinas", estado |-> "SP",
       area_total |-> "10.00", dono_id |-> ""],
      [nome |-> "Sitio", municipio |-> "Campinas", estado |-> " SP ",
       area_total |-> "10.00", dono_id |-> "x"] }

AnimalForms ==
    [tipo : {"Bovino"}, raca : {"", " ", "Nelore", NaoInformado}]
    \cup { [tipo |-> " ", raca |-> "Nelore"] }

LoteForms ==
    [propriedade_id : {"1", "2"}, animal_id : {"1", "2"},
     quantidade : {"20", "5"}, data_registro : {""}]
    \cup
    { [propriedade_id |-> "", animal_id |-> "1", quantidade |-> "20", data_registro |-> ""],
      [propriedade_id |-> "1", animal_id |-> "1", quantidade |-> "", data_registro |-> ""],
      [propriedade_id |-> "1", animal_id |-> "1", quantidade |-> "x", data_registro |-> ""],
      [propriedade_id |-> "x", animal_id |-> "1", quantidade |-> "5", data_registro |-> ""],
      [propriedade_id |-> "9", animal_id |-> "1", quantidade |-> "5", data_registro |-> ""],
      [propriedade_id |-> "1", animal_id |-> "9", quantidade |-> "5", data_registro |-> ""],
      [propriedade_id |-> "1", animal_id |-> "1", quantidade |-> "-3", data_registro |-> ""],
      [propriedade_id |-> "1", animal_id |-> "1", quantidade |-> "20",
       data_registro |-> "2024-01-15"],
      [propriedade_id |-> "1", animal_id |-> "1", quantidade |-> "3",
       data_registro |-> "15/01/2024"] }

RegisterForms == [username : {"", "admin"}, password : {"", "pw"}]

LoginForms ==
    [username : {"admin"}, password : {"", "pw", "bad"}]
    \cup { [username |-> "", password |-> "pw"], [username |-> "root", password |-> "pw"] }

(***************************************************************************)
(* Initial state: db.create_all() on an empty database, no session.        *)
(***************************************************************************)
Init ==
    /\ dono = <<>>
    /\ propriedade = <<>>
    /\ animal = <<>>
    /\ lote = <<>>
    /\ usuario = <<>>
    /\ session = EmptyDict
    /\ resp = Reply("", 200, <<>>, EmptyDict, EmptyDict)

(***************************************************************************)
(* POST /owners/cadastrar                                                  *)
(***************************************************************************)
cadastrarProprietarioBody(form) ==
    LET nome == strip(form.nome)
        cpf_cnpj == strip(form.cpf_cnpj)
    IN  IF nome = "" \/ cpf_cnpj = ""
          THEN /\ resp' = Redirect("cadastrarProprietario", "owners",
                            <<Flash("warning", "Campo nome e cpf/cnpj são obrigatórios")>>)
               /\ UNCHANGED <<tables, session>>
          ELSE IF DonoUnique(cpf_cnpj)
            THEN /\ dono' = Append(dono,
                              [id |-> Len(dono) + 1, nome |-> nome, cpf_cnpj |-> cpf_cnpj])
                 /\ resp' = Redirect("cadastrarProprietario", "owners",
                              <<Flash("success", "Proprietário cadastrado com sucesso.")>>)
                 /\ UNCHANGED <<propriedade, animal, lote, usuario, session>>
            ELSE \* IntegrityError: rollback
                 /\ resp' = Redirect("cadastrarProprietario", "owners",
                              <<Flash("warning", "CPF/CNPJ já cadastrado.")>>)
                 /\ UNCHANGED <<tables, session>>

cadastrarProprietario ==
    \E form \in DonoForms :
        /\ Fits(Len(dono) + 1, Len(propriedade), Len(animal), Len(lote))
        /\ login_required("cadastrarProprietario", cadastrarProprietarioBody(form))

(***************************************************************************)
(* POST /propriedades                                                      *)
(***************************************************************************)
propriedadesBody(form) ==
    LET nome == strip(form.nome)
        municipio == strip(form.municipio)
        estado == strip(form.estado)
        area_total == form.area_total
        dono_id == form.dono_id
    IN  IF nome = "" \/ municipio = "" \/ estado = "" \/ area_total = "" \/ dono_id = ""
          THEN /\ resp' = Redirect("propriedades", "propriedades",
                            <<Flash("warning", "Preencha todos os campos.")>>)
               /\ UNCHANGED <<tables, session>>
          ELSE IF ~IsInt(dono_id)
            THEN \* int(dono_id) raises: rollback
                 /\ resp' = Redirect("propriedades", "propriedades",
                              <<Flash("danger", "Erro ao cadastrar propriedade: ValueError")>>)
                 /\ UNCHANGED <<tables, session>>
          ELSE IF PropriedadeFK(int(dono_id))
            THEN /\ propriedade' = Append(propriedade,
                       [id |-> Len(propriedade) + 1, nome |-> nome,
                        municipio |-> municipio, estado |-> estado,
                        area_total_ha |-> Numeric(area_total),
                        dono_id |-> int(dono_id)])
                 /\ resp' = Redirect("propriedades", "propriedades",
                              <<Flash("success", "Propriedade cadastrada com sucesso.")>>)
                 /\ UNCHANGED <<dono, animal, lote, usuario, session>>
            ELSE \* commit raises: rollback
                 /\ resp' = Redirect("propriedades", "propriedades",
                              <<Flash("danger", "Erro ao cadastrar propriedade: IntegrityError")>>)
                 /\ UNCHANGED <<tables, session>>

propriedades ==
    \E form \in PropriedadeForms :
        /\ Fits(Len(dono), Len(propriedade) + 1, Len(animal), Len(lote))
        /\ login_required("propriedades", propriedadesBody(form))

(***************************************************************************)
(* POST /animais                                                           *)
(***************************************************************************)
animaisBody(form) ==
    LET tipo == strip(form.tipo)
        raca == strip(form.raca)
    IN  IF tipo = ""
          THEN /\ resp' = Redirect("animais", "animais",
                            <<Flash("warning", "Informe o tipo do animal.")>>)
               /\ UNCHANGED <<tables, session>>
          ELSE /\ animal' = Append(animal,
                     [id |-> Len(animal) + 1, tipo |-> tipo,
                      raca |-> IF raca = "" THEN NULL ELSE Some(raca)])
               /\ resp' = Redirect("animais", "animais",
                            <<Flash("success", "Animal cadastrado com sucesso.")>>)
               /\ UNCHANGED <<dono, propriedade, lote, usuario, session>>

animais ==
    \E form \in AnimalForms :
        /\ Fits(Len(dono), Len(propriedade), Len(animal) + 1, Len(lote))
        /\ login_required("animais", animaisBody(form))

(***************************************************************************)
(* POST /lotes                                                             *)
(***************************************************************************)
\* Mutant of data_registro_val: a string that does not parse is stored as
\* day 0 instead of None.
data_registro_epoch(s) ==
    IF s # "" THEN Some(IF IsDate(s) THEN strptime(s) ELSE 0) ELSE NULL

\* data_registro_val: None, or the parsed date when the string is given and
\* parses; the inner except sets None again.
data_registro_val(s) ==
    IF s # "" /\ IsDate(s) THEN Some(strptime(s)) ELSE NULL

lotesBody(form) ==
    LET propriedade_id == form.propriedade_id
        animal_id == form.animal_id
        quantidade == form.quantidade
        data_registro_str == form.data_registro
    IN  IF propriedade_id = "" \/ animal_id = "" \/ quantidade = ""
          THEN /\ resp' = Redirect("lotes", "lotes",
                            <<Flash("warning", "Informe propriedade, animal e quantidade.")>>)
               /\ UNCHANGED <<tables, session>>
          ELSE IF ~(IsInt(quantidade) /\ IsInt(propriedade_id) /\ IsInt(animal_id))
            THEN \* int(...) raises: rollback
                 /\ resp' = Redirect("lotes", "lotes",
                              <<Flash("danger", "Erro ao registrar lote: ValueError")>>)
                 /\ UNCHANGED <<tables, session>>
          ELSE IF LoteFK(int(propriedade_id), int(animal_id))
            THEN /\ lote' = Append(lote,
                       [id |-> Len(lote) + 1,
                        propriedade_id |-> int(propriedade_id),
                        animal_id |-> int(animal_id),
                        quantidade |-> int(quantidade),
                        data_registro |-> data_registro_val(data_registro_str)])
                 /\ resp' = Redirect("lotes", "lotes",
                              <<Flash("success", "Lote registrado com sucesso.")>>)
                 /\ UNCHANGED <<dono, propriedade, animal, usuario, session>>
            ELSE \* commit raises: rollback
                 /\ resp' = Redirect("lotes", "lotes",
                              <<Flash("danger", "Erro ao registrar lote: IntegrityError")>>)
                 /\ UNCHANGED <<tables, session>>

lotes ==
    \E form \in LoteForms :
        /\ Fits(Len(dono), Len(propriedade), Len(animal), Len(lote) + 1)
        /\ login_required("lotes", lotesBody(form))

(***************************************************************************)
(* POST /register, POST /login, GET /logout                                *)
(***************************************************************************)
register ==
    \E form \in RegisterForms :
        LET username == strip(form.username)
            password == form.password
        IN  IF username = "" \/ password = ""
              THEN /\ resp' = Redirect("register", "register",
                        <<Flash("warning", "Informe usuário e senha para criar a conta.")>>)
                   /\ UNCHANGED <<tables, session>>
              ELSE IF UsuarioByName(username) # {}
                THEN /\ resp' = Redirect("register", "register",
                          <<Flash("warning", "Usuário já existe. Escolha outro.")>>)
                     /\ UNCHANGED <<tables, session>>
                ELSE /\ usuario' = Append(usuario,
                          [id |-> Len(usuario) + 1, username |-> username,
                           password |-> password])
                     /\ resp' = Redirect("register", "login",
                          <<Flash("success", "Conta criada com sucesso. Faça login para continuar.")>>)
                     /\ UNCHANGED <<dono, propriedade, animal, lote, session>>

loginBody(form) ==
    LET username == strip(form.username)
        password == form.password
    IN  IF username = "" \/ password = ""
          THEN /\ resp' = Redirect("login", "login",
                    <<Flash("warning", "Informe usuário e senha.")>>)
               /\ UNCHANGED <<tables, session>>
          ELSE IF \E i \in UsuarioByName(username) : usuario[i].password = password
            THEN /\ session' = ("user" :> username) @@ session
                 /\ resp' = Redirect("login", "index",
                      <<Flash("success", "Login efetuado com sucesso.")>>)
                 /\ UNCHANGED tables
            ELSE /\ resp' = Redirect("login", "login",
                      <<Flash("danger", "Usuário ou senha inválidos.")>>)
                 /\ UNCHANGED <<tables, session>>

login == \E form \in LoginForms : loginBody(form)

logout ==
    /\ session' = [k \in DOMAIN session \ {"user"} |-> session[k]]
    /\ resp' = Redirect("logout", "login", <<Flash("info", "Você saiu da aplicação.")>>)
    /\ UNCHANGED tables

(***************************************************************************)
(* SQL aggregates and ordering.                                            *)
(***************************************************************************)
RECURSIVE Sum(_, _)
\* The sum of f[x] over the rows x of S.
Sum(f, S) ==
    IF S = {} THEN 0
    ELSE LET x == CHOOSE y \in S : TRUE
         IN  f[x] + Sum(f, S \ {x})

\* func.sum: NULL over no rows.
SqlSum(f, S) == IF S = {} THEN NULL ELSE Some(Sum(f, S))

\* func.COALESCE(x, d)
COALESCE(x, d) == IF x = NULL THEN d ELSE x[1]

\* Mutant of OrderByDesc: .order_by(key) without .desc().
OrderByAsc(G, key) ==
    LET n == Cardinality(G)
        k == key
    IN  { s \in [1..n -> G] :
            /\ \A i, j \in 1..n : i # j => s[i] # s[j]
            /\ \A i, j \in 1..n : i < j => k[s[i]] <= k[s[j]] }

\* .order_by(key.desc()).all(): the groups G in any order in which the key
\* never increases; SQL leaves the order of rows with equal keys open.
OrderByDesc(G, key) ==
    LET n == Cardinality(G)
        k == key
    IN  { s \in [1..n -> G] :
            /\ \A i, j \in 1..n : i # j => s[i] # s[j]
            /\ \A i, j \in 1..n : i < j => k[s[i]] >= k[s[j]] }

(***************************************************************************)
(* GET /api/bi/dashboard                                                   *)
(***************************************************************************)
\* Mutant of q1Join: Lote joined without its ON condition.
q1JoinNoOn ==
    { j \in (1..Len(dono)) \X (1..Len(propriedade)) \X (1..Len(lote)) :
        propriedade[j[2]].dono_id = dono[j[1]].id }

\* q1: Dono JOIN Propriedade JOIN Lote, GROUP BY Dono.id
q1Join ==
    { j \in (1..Len(dono)) \X (1..Len(propriedade)) \X (1..Len(lote)) :
        /\ propriedade[j[2]].dono_id = dono[j[1]].id
        /\ lote[j[3]].propriedade_id = propriedade[j[2]].id }

q1Groups == { dono[j[1]].id : j \in q1Join }

q1Sum == [g \in q1Groups |->
            SqlSum([j \in q1Join |-> lote[j[3]].quantidade],
                   {j \in q1Join : dono[j[1]].id = g})]

q1Key == [g \in q1Groups |-> q1Sum[g][1]]

q1Line(g) ==
    [proprietario |-> (CHOOSE d \in {dono[i] : i \in 1..Len(dono)} : d.id = g).nome,
     total_animais |-> COALESCE(q1Sum[g], 0)]

\* Mutant of q2Join: Lote joined without its ON condition.
q2JoinNoOn == (1..Len(animal)) \X (1..Len(lote))

\* q2: Animal JOIN Lote, GROUP BY Animal.raca
q2Join ==
    { j \in (1..Len(animal)) \X (1..Len(lote)) :
        lote[j[2]].animal_id = animal[j[1]].id }

q2Groups == { animal[j[1]].raca : j \in q2Join }

q2Sum == [g \in q2Groups |->
            SqlSum([j \in q2Join |-> lote[j[2]].quantidade],
                   {j \in q2Join : animal[j[1]].raca = g})]

q2Key == [g \in q2Groups |-> q2Sum[g][1]]

\* r.raca or "Não informado"
q2Line(g) ==
    [raca |-> IF g = NULL \/ g = Some("") THEN NaoInformado ELSE g[1],
     total |-> COALESCE(q2Sum[g], 0)]

\* Mutant of q3Join: Lote joined in as well, as in q1.
q3JoinLote ==
    { j \in (1..Len(dono)) \X (1..Len(propriedade)) :
        /\ propriedade[j[2]].dono_id = dono[j[1]].id
        /\ \E l \in 1..Len(lote) : lote[l].propriedade_id = propriedade[j[2]].id }

\* q3: Dono JOIN Propriedade, GROUP BY Dono.id
q3Join ==
    { j \in (1..Len(dono)) \X (1..Len(propriedade)) :
        propriedade[j[2]].dono_id = dono[j[1]].id }

q3Groups == { dono[j[1]].id : j \in q3Join }

q3Sum == [g \in q3Groups |->
            SqlSum([j \in q3Join |-> propriedade[j[2]].area_total_ha],
                   {j \in q3Join : dono[j[1]].id = g})]

q3Key == [g \in q3Groups |-> q3Sum[g][1]]

q3Line(g) ==
    [proprietario |-> (CHOOSE d \in {dono[i] : i \in 1..Len(dono)} : d.id = g).nome,
     total_ha |-> COALESCE(q3Sum[g], 0)]

\* q4: Propriedade GROUP BY Propriedade.estado
q4Groups == { propriedade[i].estado : i \in 1..Len(propriedade) }

\* Mutant of q4Count: func.count(func.distinct(Propriedade.estado)).
q4CountDistinct == [g \in q4Groups |-> 1]

q4Count == [g \in q4Groups |->
              Cardinality({i \in 1..Len(propriedade) : propriedade[i].estado = g})]

\* r.estado or "Não informado"
q4Line(g) ==
    [estado |-> IF g = "" THEN NaoInformado ELSE g,
     total_fazendas |-> q4Count[g]]

\* `data` after the first n of the four queries, given their result orders.
BiData(n, o1, o2, o3, o4) ==
    (IF n >= 1 THEN "animais_por_proprietario" :> [i \in 1..Len(o1) |-> q1Line(o1[i])]
     ELSE EmptyDict)
    @@ (IF n >= 2 THEN "animais_por_raca" :> [i \in 1..Len(o2) |-> q2Line(o2[i])]
        ELSE EmptyDict)
    @@ (IF n >= 3 THEN "area_por_proprietario" :> [i \in 1..Len(o3) |-> q3Line(o3[i])]
        ELSE EmptyDict)
    @@ (IF n >= 4 THEN "fazendas_por_estado" :> [i \in 1..Len(o4) |-> q4Line(o4[i])]
        ELSE EmptyDict)

\* return jsonify(data)
BiSuccess(data) == Reply("bi_dashboard", 200, <<>>, data, EmptyDict)

\* Mutant of BiExcept: the error is added to the lists gathered so far.
BiExceptPartial(data, e) ==
    Reply("bi_dashboard", 500, <<>>, ("error" :> e) @@ data, EmptyDict)

\* except Exception as e: return jsonify({"error": str(e)}), 500
BiExcept(data, e) == Reply("bi_dashboard", 500, <<>>, [error |-> e], EmptyDict)

\* The answer of one run of the handler: the store fails query number
\* `raises` (1..4) or none (0); o1..o4 are the orders in which the queries
\* return their groups.
BiReply(raises, o1, o2, o3, o4) ==
    IF raises = 0
      THEN BiSuccess(BiData(4, o1, o2, o3, o4))
      ELSE BiExcept(BiData(raises - 1, o1, o2, o3, o4), "OperationalError")

\* The route carries no @login_required.
bi_dashboard ==
    \E o1 \in OrderByDesc(q1Groups, q1Key), o2 \in OrderByDesc(q2Groups, q2Key),
       o3 \in OrderByDesc(q3Groups, q3Key), o4 \in OrderByDesc(q4Groups, q4Count) :
    \E raises \in 0..4 :
        /\ resp' = BiReply(raises, o1, o2, o3, o4)
        /\ UNCHANGED <<tables, session>>

(***************************************************************************)
(* GET /index                                                              *)
(***************************************************************************)
\* The statistics of index in the order the handler computes them.
IndexStats ==
    <<"proprietarios_count", "propriedades_count", "animais_count", "lotes_count",
      "quantidade_total", "tipos_animais", "raca_animais", "lotes">>

\* Lote.query.order_by(Lote.data_registro.desc()): NULL dates sort last.
LoteDateKey == [i \in 1..Len(lote) |->
                  IF lote[i].data_registro = NULL THEN 0 ELSE lote[i].data_registro[1]]

\* The value of each statistic on the store; `order` is the result order of
\* the lote list.
IndexValue(name, order) ==
    CASE name = "proprietarios_count" -> Len(dono)
      [] name = "propriedades_count" -> Len(propriedade)
      [] name = "animais_count" -> Len(animal)
      [] name = "lotes_count" -> Len(lote)
      [] name = "quantidade_total" ->
            COALESCE(SqlSum([i \in 1..Len(lote) |-> lote[i].quantidade], 1..Len(lote)), 0)
      [] name = "tipos_animais" -> Cardinality({animal[i].tipo : i \in 1..Len(animal)})
      [] name = "raca_animais" ->
            Cardinality({animal[i].raca : i \in 1..Len(animal)} \ {NULL})
      [] name = "lotes" -> [i \in 1..Len(order) |-> lote[order[i]].id]

\* The locals of index after the first n statistics.
IndexLocals(n, order) ==
    [name \in {IndexStats[i] : i \in 1..n} |-> IndexValue(name, order)]

\* The template context of a run without exception.
IndexContext(locals) ==
    [proprietarios_count |-> locals["proprietarios_count"],
     propriedades_count |-> locals["propriedades_count"],
     propriedades_ativas |-> locals["propriedades_count"],
     animais_count |-> locals["animais_count"],
     tipos_animais |-> locals["tipos_animais"],
     lotes_count |-> locals["lotes_count"],
     raca_animais |-> locals["raca_animais"],
     lotes_ativos |-> locals["lotes_count"],
     quantidade_count |-> locals["quantidade_total"],
     atividades_recentes |-> <<"propriedade", "animal", "lote">>,
     lotes |-> locals["lotes"]]

\* Mutant of IndexExcept: proprietarios_count is left as computed.
IndexExceptKeeps(locals) ==
    [proprietarios_count |->
        IF "proprietarios_count" \in DOMAIN locals THEN locals["proprietarios_count"] ELSE 0,
     propriedades_count |-> 0, propriedades_ativas |-> 0,
     animais_count |-> 0, tipos_animais |-> 0, lotes_count |-> 0, raca_animais |-> 0,
     lotes_ativos |-> 0, quantidade_count |-> 0, atividades_recentes |-> <<>>,
     lotes |-> <<>>]

\* except Exception: every local is set to 0 or [], whatever was computed.
IndexExcept(locals) ==
    [proprietarios_count |-> 0, propriedades_count |-> 0, propriedades_ativas |-> 0,
     animais_count |-> 0, tipos_animais |-> 0, lotes_count |-> 0, raca_animais |-> 0,
     lotes_ativos |-> 0, quantidade_count |-> 0, atividades_recentes |-> <<>>,
     lotes |-> <<>>]

\* The answer of one run of the handler body: the store fails statistic
\* number `raises` (1..8) or none (0); `order` is the order of the lote list.
IndexReply(raises, order) ==
    IF raises = 0
      THEN Reply("index", 200, <<>>, EmptyDict,
                 IndexContext(IndexLocals(Len(IndexStats), order)))
      ELSE Reply("index", 200,
                 <<Flash("danger", "Erro ao carregar dados do dashboard: OperationalError")>>,
                 EmptyDict, IndexExcept(IndexLocals(raises - 1, order)))

indexBody ==
    \E order \in OrderByDesc(1..Len(lote), LoteDateKey) :
    \E raises \in 0..Len(IndexStats) :
        /\ resp' = IndexReply(raises, order)
        /\ UNCHANGED <<tables, session>>

index == login_required("index", indexBody)

Next ==
    \/ cadastrarProprietario
    \/ propriedades
    \/ animais
    \/ lotes
    \/ register
    \/ login
    \/ logout
    \/ bi_dashboard
    \/ index

Spec == Init /\ [][Next]_vars

(***************************************************************************)
(* Properties.  What a list must hold is computed here from the tables row *)
(* by row, not through the joins and groups of the handler.                *)
(***************************************************************************)
BiOk == resp.handler = "bi_dashboard" /\ resp.status = 200

Lines(key) == resp.json[key]

\* How often the line v occurs in the list.
Count(lines, v) == Cardinality({i \in 1..Len(lines) : lines[i] = v})

\* The list holds exactly the lines expected[x], x \in DOMAIN expected, each
\* as often as it is expected.
SameLines(lines, expected) ==
    \A v \in {lines[i] : i \in 1..Len(lines)} \cup {expected[x] : x \in DOMAIN expected} :
        Count(lines, v) = Cardinality({x \in DOMAIN expected : expected[x] = v})

RECURSIVE QuantidadeOf(_, _)
\* The sum of quantidade over the lote rows 1..n that are in L.
QuantidadeOf(n, L) ==
    IF n = 0 THEN 0
    ELSE (IF n \in L THEN lote[n].quantidade ELSE 0) + QuantidadeOf(n - 1, L)

RECURSIVE AreaOf(_, _)
\* The sum of area_total_ha over the propriedade rows 1..n that are in P.
AreaOf(n, P) ==
    IF n = 0 THEN 0
    ELSE (IF n \in P THEN propriedade[n].area_total_ha ELSE 0) + AreaOf(n - 1, P)

RECURSIVE LineSum(_, _)
\* The sum of the field `field` over the lines of a list.
LineSum(lines, field) ==
    IF lines = <<>> THEN 0
    ELSE Head(lines)[field] + LineSum(Tail(lines), field)

\* The propriedade rows of the dono row d, and the lote rows on them.
PropsOfDono(d) ==
    {p \in 1..Len(propriedade) : propriedade[p].dono_id = dono[d].id}

LotesOfDono(d) ==
    {l \in 1..Len(lote) :
        \E p \in PropsOfDono(d) : lote[l].propriedade_id = propriedade[p].id}

\* C1: animais_por_proprietario holds exactly one line per dono that has a
\* lote on one of its propriedades, with the dono's nome and the sum of
\* quantidade over all those lotes, each counted once; a dono without
\* propriedade or without lote has no line.
C1_AnimaisPorProprietario ==
    BiOk =>
        SameLines(Lines("animais_por_proprietario"),
            [d \in {x \in 1..Len(dono) : LotesOfDono(x) # {}} |->
                [proprietario |-> dono[d].nome,
                 total_animais |-> QuantidadeOf(Len(lote), LotesOfDono(d))]])

\* C1 witness: Ana holds a 10.00 ha propriedade without lote and a 5.50 ha
\* one with a lote of 20; a second dono holds nothing; the list is Ana: 20.
C1_Witness ==
    /\ BiOk
    /\ Len(dono) = 2 /\ Len(propriedade) = 2 /\ Len(lote) = 1
    /\ dono[1].nome = "Ana"
    /\ propriedade[1].dono_id = 1 /\ propriedade[1].area_total_ha = 1000
    /\ propriedade[2].dono_id = 1 /\ propriedade[2].area_total_ha = 550
    /\ lote[1].propriedade_id = 2 /\ lote[1].quantidade = 20
    /\ Lines("animais_por_proprietario") = <<[proprietario |-> "Ana", total_animais |-> 20]>>

\* The lote rows whose animal has no raca (NULL or empty).
LotesSemRaca ==
    {l \in 1..Len(lote) :
        \E a \in 1..Len(animal) :
            /\ lote[l].animal_id = animal[a].id
            /\ animal[a].raca \in {NULL, Some("")}}

\* C2: in animais_por_raca the lotes whose animal has a NULL or empty raca
\* are reported in one line labelled "Não informado", no two lines carry
\* that label, and the totals of the list add up to the quantidade of all
\* lotes.
C2_AnimaisPorRaca ==
    BiOk =>
        LET lines == Lines("animais_por_raca")
            semRaca == {i \in 1..Len(lines) : lines[i].raca = NaoInformado}
        IN  /\ Cardinality(semRaca) <= 1
            /\ LotesSemRaca # {} =>
                  \E i \in semRaca :
                      lines[i].total = QuantidadeOf(Len(lote), LotesSemRaca)
            /\ LineSum(lines, "total") = QuantidadeOf(Len(lote), 1..Len(lote))

\* C3: area_por_proprietario holds exactly one line per dono that has a
\* propriedade, with the dono's nome and the sum of area_total_ha over that
\* dono's propriedades, each counted once whatever lotes it carries; a dono
\* without propriedade has no line.
C3_AreaPorProprietario ==
    BiOk =>
        SameLines(Lines("area_por_proprietario"),
            [d \in {x \in 1..Len(dono) : PropsOfDono(x) # {}} |->
                [proprietario |-> dono[d].nome,
                 total_ha |-> AreaOf(Len(propriedade), PropsOfDono(d))]])

\* C3 witness: one dono with a propriedade of 10.00 ha that carries two
\* lotes and one of 5.50 ha that carries none; the list is 15.50 ha.
C3_Witness ==
    /\ BiOk
    /\ Len(propriedade) = 2 /\ Len(lote) = 2
    /\ propriedade[1].dono_id = 1 /\ propriedade[1].area_total_ha = 1000
    /\ propriedade[2].dono_id = 1 /\ propriedade[2].area_total_ha = 550
    /\ lote[1].propriedade_id = 1 /\ lote[2].propriedade_id = 1
    /\ Lines("area_por_proprietario")
         = <<[proprietario |-> dono[1].nome, total_ha |-> 1550]>>

\* The label of an estado in fazendas_por_estado.
EstadoLabel(estado) == IF estado = "" THEN NaoInformado ELSE estado

\* C4: in fazendas_por_estado every propriedade is counted in exactly one
\* line (the one of its estado), the counts add up to the number of
\* propriedades, and at most one line is labelled "Não informado".
C4_FazendasPorEstado ==
    BiOk =>
        LET lines == Lines("fazendas_por_estado")
        IN  /\ LineSum(lines, "total_fazendas") = Len(propriedade)
            /\ \A p \in 1..Len(propriedade) :
                  Cardinality({i \in 1..Len(lines) :
                      lines[i].estado = EstadoLabel(propriedade[p].estado)}) = 1
            /\ \A i \in 1..Len(lines) :
                  lines[i].total_fazendas =
                      Cardinality({p \in 1..Len(propriedade) :
                          EstadoLabel(propriedade[p].estado) = lines[i].estado})
            /\ Cardinality({i \in 1..Len(lines) : lines[i].estado = NaoInformado}) <= 1

\* C4 witness: two propriedades in one estado make one line of 2.
C4_Witness ==
    /\ BiOk
    /\ Len(propriedade) = 2
    /\ propriedade[1].estado = propriedade[2].estado
    /\ Lines("fazendas_por_estado")
         = <<[estado |-> propriedade[1].estado, total_fazendas |-> 2]>>

\* No line of the list has a larger `field` than a line before it.
Descending(lines, field) ==
    \A i, j \in 1..Len(lines) : i < j => lines[i][field] >= lines[j][field]

DuplicateCpf(form) ==
    /\ strip(form.nome) # ""
    /\ \E i \in 1..Len(dono) : dono[i].cpf_cnpj = strip(form.cpf_cnpj)

CpfWarning ==
    Redirect("cadastrarProprietario", "owners",
             <<Flash("warning", "CPF/CNPJ já cadastrado.")>>)

\* C6: no two dono rows share a cpf_cnpj; a cadastrarProprietario request
\* with the cpf_cnpj of an existing dono changes no table and is answered by
\* a redirect with one warning.
C6_CpfUnique ==
    /\ [](\A i, j \in 1..Len(dono) : dono[i].cpf_cnpj = dono[j].cpf_cnpj => i = j)
    /\ [][(resp'.handler = "cadastrarProprietario" /\ LoggedIn) =>
            \A form \in DonoForms :
                (DuplicateCpf(form) /\ cadastrarProprietarioBody(form))
                    => (tables' = tables /\ resp' = CpfWarning)]_vars

\* C6 witness: a duplicate was refused over tables that hold rows.
C6_Witness ==
    /\ resp = CpfWarning
    /\ Len(dono) = 1 /\ Len(propriedade) >= 1

BiKeys ==
    {"animais_por_proprietario", "animais_por_raca", "area_por_proprietario",
     "fazendas_por_estado"}

\* C7: over every store, a run of bi_dashboard in which any one of the four
\* queries raises is answered by {"error": message} alone with status 500;
\* an answer of bi_dashboard that holds one of the four lists holds all four
\* and has status 200.
C7_AtomicFail ==
    /\ resp.handler = "bi_dashboard" =>
          \/ resp.status = 500 /\ DOMAIN resp.json = {"error"}
          \/ resp.status = 200 /\ DOMAIN resp.json = BiKeys
    /\ \A o1 \in OrderByDesc(q1Groups, q1Key), o2 \in OrderByDesc(q2Groups, q2Key),
          o3 \in OrderByDesc(q3Groups, q3Key), o4 \in OrderByDesc(q4Groups, q4Count) :
        \A raises \in 1..4 :
            LET r == BiReply(raises, o1, o2, o3, o4)
            IN  r.status = 500 /\ DOMAIN r.json = {"error"}

\* C7 witness: the bundle failed over a store in which every list has lines.
C7_Witness ==
    /\ resp.handler = "bi_dashboard" /\ resp.status = 500
    /\ DOMAIN resp.json = {"error"}
    /\ Len(lote) >= 1

\* The context of index with every statistic at its fallback.
IndexZero(context) ==
    /\ \A name \in {"proprietarios_count", "propriedades_count", "propriedades_ativas",
                    "animais_count", "tipos_animais", "lotes_count", "raca_animais",
                    "lotes_ativos", "quantidade_count"} : context[name] = 0
    /\ context["lotes"] = <<>>

\* The context of index with every statistic at its value on the tables.
IndexReal(context) ==
    /\ context["proprietarios_count"] = Len(dono)
    /\ context["propriedades_count"] = Len(propriedade)
    /\ context["propriedades_ativas"] = Len(propriedade)
    /\ context["animais_count"] = Len(animal)
    /\ context["lotes_count"] = Len(lote)
    /\ context["lotes_ativos"] = Len(lote)
    /\ context["quantidade_count"] = QuantidadeOf(Len(lote), 1..Len(lote))
    /\ context["tipos_animais"] = Cardinality({animal[i].tipo : i \in 1..Len(animal)})
    /\ context["raca_animais"] =
          Cardinality({animal[i].raca : i \in 1..Len(animal)} \ {NULL})
    /\ Len(context["lotes"]) = Len(lote)

\* C8: over every store, a run of index in which any one statistic raises
\* renders every statistic as 0 and the lote list empty, with exactly one
\* message; a page rendered without message holds the values of the tables,
\* so that no page mixes values with fallbacks.
C8_FailToZero ==
    /\ (resp.handler = "index" /\ resp.status = 200) =>
          \/ Len(resp.flashes) = 1 /\ IndexZero(resp.context)
          \/ Len(resp.flashes) = 0 /\ IndexReal(resp.context)
    /\ \A order \in OrderByDesc(1..Len(lote), LoteDateKey) :
        \A raises \in 1..Len(IndexStats) :
            LET r == IndexReply(raises, order)
            IN  /\ IndexZero(r.context)
                /\ Len(r.flashes) = 1 /\ r.flashes[1].category = "danger"

\* C8 witness: the page fell back to zeros over tables that hold rows.
C8_Witness ==
    /\ resp.handler = "index" /\ resp.status = 200
    /\ Len(resp.flashes) = 1
    /\ IndexZero(resp.context)
    /\ Len(dono) >= 1 /\ Len(animal) >= 1 /\ Len(lote) >= 1

\* C9: the BI queries and the statistics of index run only for a session
\* that holds 'user'.
C9_GateBeforeAggregation ==
    (resp.handler \in {"bi_dashboard", "index"} /\ resp.status # 302) => LoggedIn

\* The requests that name a row that does not exist.
DanglingDono(form) ==
    /\ strip(form.nome) # "" /\ strip(form.municipio) # "" /\ strip(form.estado) # ""
    /\ IsInt(form.dono_id) /\ int(form.dono_id) \notin Ids(dono)

DanglingLote(form) ==
    /\ IsInt(form.quantidade) /\ IsInt(form.propriedade_id) /\ IsInt(form.animal_id)
    /\ \/ int(form.propriedade_id) \notin Ids(propriedade)
       \/ int(form.animal_id) \notin Ids(animal)

\* C10: every propriedade row names an existing dono, every lote row an
\* existing propriedade and an existing animal; a request that names a row
\* that does not exist creates no row.
C10_ReferentialIntegrity ==
    /\ [](/\ \A p \in 1..Len(propriedade) : propriedade[p].dono_id \in Ids(dono)
          /\ \A l \in 1..Len(lote) :
                /\ lote[l].propriedade_id \in Ids(propriedade)
                /\ lote[l].animal_id \in Ids(animal))
    /\ [][/\ (resp'.handler = "propriedades" /\ LoggedIn) =>
                \A form \in PropriedadeForms :
                    (DanglingDono(form) /\ propriedadesBody(form)) => tables' = tables
          /\ (resp'.handler = "lotes" /\ LoggedIn) =>
                \A form \in LoteForms :
                    (DanglingLote(form) /\ lotesBody(form)) => tables' = tables]_vars

\* C10 witness: a lote naming a missing row was refused by the store while
\* the tables hold propriedades and lotes.
C10_Witness ==
    /\ resp.handler = "lotes"
    /\ resp.flashes = <<Flash("danger", "Erro ao registrar lote: IntegrityError")>>
    /\ Len(propriedade) >= 1 /\ Len(lote) >= 1

CreationHandlers == {"cadastrarProprietario", "propriedades", "animais", "lotes"}

\* A form value that is empty or holds only blanks.
Blank(s) == s \in {"", " "}

\* The table `new` is the table `old` with one row added at its end.
Grew(old, new) == Len(new) = Len(old) + 1 /\ SubSeq(new, 1, Len(old)) = old

\* The step ends with a warning or danger message and changes no table.
Refused ==
    /\ resp'.flashes[1].category \in {"warning", "danger"}
    /\ tables' = tables

\* The step adds one row to the table of its handler and nothing else.
OneRowAdded ==
    \/ /\ resp'.handler = "cadastrarProprietario" /\ Grew(dono, dono')
       /\ UNCHANGED <<propriedade, animal, lote, usuario>>
    \/ /\ resp'.handler = "propriedades" /\ Grew(propriedade, propriedade')
       /\ UNCHANGED <<dono, animal, lote, usuario>>
    \/ /\ resp'.handler = "animais" /\ Grew(animal, animal')
       /\ UNCHANGED <<dono, propriedade, lote, usuario>>
    \/ /\ resp'.handler = "lotes" /\ Grew(lote, lote')
       /\ UNCHANGED <<dono, propriedade, animal, usuario>>

\* The requests with a missing field, a value that is no integer, or a value
\* the constraints of the store refuse.
BadDono(form) == Blank(form.nome) \/ Blank(form.cpf_cnpj) \/ DuplicateCpf(form)

BadPropriedade(form) ==
    \/ Blank(form.nome) \/ Blank(form.municipio) \/ Blank(form.estado)
    \/ form.area_total = "" \/ form.dono_id = ""
    \/ ~IsInt(form.dono_id)
    \/ DanglingDono(form)

BadAnimal(form) == Blank(form.tipo)

BadLote(form) ==
    \/ form.propriedade_id = "" \/ form.animal_id = "" \/ form.quantidade = ""
    \/ ~IsInt(form.propriedade_id) \/ ~IsInt(form.animal_id) \/ ~IsInt(form.quantidade)
    \/ DanglingLote(form)

\* C11: a creation request that ends with a warning or danger message
\* changes no table; a request with a missing field, a non-integer id or
\* quantity, or a constraint violation ends that way; and a request that
\* ends with success adds exactly one row to the table of its handler, so
\* that nothing of an earlier failed request is committed with it.
C11_FailedCreationUnchanged ==
    [][/\ resp'.handler \in CreationHandlers =>
            /\ resp'.flashes[1].category \in {"warning", "danger"} => tables' = tables
            /\ resp'.flashes[1].category = "success" => OneRowAdded
            /\ resp'.flashes[1].category \in {"warning", "danger", "success"}
       /\ (resp'.handler = "cadastrarProprietario" /\ LoggedIn) =>
            \A form \in DonoForms :
                (BadDono(form) /\ cadastrarProprietarioBody(form)) => Refused
       /\ (resp'.handler = "propriedades" /\ LoggedIn) =>
            \A form \in PropriedadeForms :
                (BadPropriedade(form) /\ propriedadesBody(form)) => Refused
       /\ (resp'.handler = "animais" /\ LoggedIn) =>
            \A form \in AnimalForms :
                (BadAnimal(form) /\ animaisBody(form)) => Refused
       /\ (resp'.handler = "lotes" /\ LoggedIn) =>
            \A form \in LoteForms :
                (BadLote(form) /\ lotesBody(form)) => Refused]_vars

\* C11 witness: a propriedade with a dono_id that is no integer was refused
\* while the tables hold donos and propriedades.
C11_Witness ==
    /\ resp.handler = "propriedades"
    /\ resp.flashes = <<Flash("danger", "Erro ao cadastrar propriedade: ValueError")>>
    /\ Len(dono) >= 1 /\ Len(propriedade) >= 1

\* A lote form whose ids and quantity are integers and name existing rows,
\* with a data_registro that is given but is no YYYY-MM-DD date.
UnparsableDate(form) ==
    /\ IsInt(form.propriedade_id) /\ IsInt(form.animal_id) /\ IsInt(form.quantidade)
    /\ int(form.propriedade_id) \in Ids(propriedade)
    /\ int(form.animal_id) \in Ids(animal)
    /\ form.data_registro \notin {"", "2024-01-15"}

\* C12: a lotes request with valid propriedade_id, animal_id and quantidade
\* and a data_registro that is no valid date adds exactly one lote with the
\* submitted ids and quantity and a NULL data_registro, and reports success.
C12_UnparsableDate ==
    [][(resp'.handler = "lotes" /\ LoggedIn) =>
          \A form \in LoteForms :
              (UnparsableDate(form) /\ lotesBody(form)) =>
                  /\ Grew(lote, lote')
                  /\ lote'[Len(lote')] =
                        [id |-> Len(lote) + 1,
                         propriedade_id |-> int(form.propriedade_id),
                         animal_id |-> int(form.animal_id),
                         quantidade |-> int(form.quantidade),
                         data_registro |-> NULL]
                  /\ UNCHANGED <<dono, propriedade, animal, usuario>>
                  /\ resp'.flashes = <<Flash("success", "Lote registrado com sucesso.")>>]_vars

\* C12 witness: the lote of 3 sent with the date 15/01/2024 is stored
\* without date, after a lote with a date.
C12_Witness ==
    /\ resp.handler = "lotes" /\ resp.flashes[1].category = "success"
    /\ Len(lote) = 2
    /\ lote[1].data_registro # NULL
    /\ lote[2].quantidade = 3 /\ lote[2].data_registro = NULL

\* C13: every stored lote has a quantidade of 0 or more.
C13_QuantidadeNonNegative ==
    \A l \in 1..Len(lote) : lote[l].quantidade >= 0

\* The sum of quantidade over all lote rows.
TotalQuantidade == QuantidadeOf(Len(lote), 1..Len(lote))

\* C14: over every store, the total_animais of animais_por_proprietario, the
\* total of animais_por_raca and the quantidade total of index each add up
\* to the sum of quantidade over all lotes, in every answer without error.
C14_Conservation ==
    /\ BiOk =>
          /\ LineSum(Lines("animais_por_proprietario"), "total_animais") = TotalQuantidade
          /\ LineSum(Lines("animais_por_raca"), "total") = TotalQuantidade
    /\ (resp.handler = "index" /\ resp.status = 200 /\ resp.flashes = <<>>) =>
          resp.context["quantidade_count"] = TotalQuantidade
    /\ \A o1 \in OrderByDesc(q1Groups, q1Key), o2 \in OrderByDesc(q2Groups, q2Key),
          o3 \in OrderByDesc(q3Groups, q3Key), o4 \in OrderByDesc(q4Groups, q4Count) :
          LET json == BiReply(0, o1, o2, o3, o4).json
          IN  /\ LineSum(json["animais_por_proprietario"], "total_animais") = TotalQuantidade
              /\ LineSum(json["animais_por_raca"], "total") = TotalQuantidade
    /\ \A order \in OrderByDesc(1..Len(lote), LoteDateKey) :
          IndexReply(0, order).context["quantidade_count"] = TotalQuantidade

\* C14 witness: the BI answer over lotes of 20 and 5 of two animals on the
\* propriedade of one dono: one line of 25 by dono, two lines by raca.
C14_Witness ==
    /\ BiOk
    /\ Len(lote) = 2 /\ TotalQuantidade = 25
    /\ Len(Lines("animais_por_proprietario")) = 1
    /\ Lines("animais_por_proprietario")[1].total_animais = 25
    /\ Len(Lines("animais_por_raca")) = 2
    /\ LineSum(Lines("animais_por_raca"), "total") = 25

\* The form holds the username and the password of a usuario row.
Credentials(form) ==
    \E i \in 1..Len(usuario) :
        /\ usuario[i].username = strip(form.username)
        /\ usuario[i].password = form.password

\* The redirect of @login_required.
LoginRedirect(handler) ==
    Redirect(handler, "login", <<Flash("warning", "Faça login para acessar esta página.")>>)

\* C15: the session gains 'user' only by a login with the username and
\* password of a usuario row and loses it only by logout; a login without
\* such credentials leaves the session as it was; a creation request
\* changes dono, propriedade, animal or lote only while the session holds
\* 'user', and is otherwise redirected to login with every table unchanged.
C15_SessionGatesWrites ==
    [][/\ session' # session => resp'.handler \in {"login", "logout"}
       /\ (LoggedIn' /\ ~LoggedIn) => resp'.handler = "login"
       /\ (LoggedIn /\ ~LoggedIn') => resp'.handler = "logout"
       /\ resp'.handler = "logout" => ~LoggedIn'
       /\ resp'.handler = "login" =>
            \A form \in LoginForms :
                loginBody(form) =>
                    IF Credentials(form)
                      THEN LoggedIn' /\ session'["user"] = strip(form.username)
                      ELSE session' = session
       /\ <<dono, propriedade, animal, lote>>' # <<dono, propriedade, animal, lote>> =>
            LoggedIn /\ resp'.handler \in CreationHandlers
       /\ (resp'.handler \in CreationHandlers /\ ~LoggedIn) =>
            /\ resp' = LoginRedirect(resp'.handler)
            /\ tables' = tables]_vars

\* C15 witness: after a logout, a lotes request was redirected to login over
\* tables that hold rows written while the session held 'user'.
C15_Witness ==
    /\ resp = LoginRedirect("lotes")
    /\ ~LoggedIn
    /\ Len(propriedade) >= 1 /\ Len(animal) >= 1
====
